---- MODULE Spec2Model ----
(***************************************************************************)
(* Model of the MasjidApp component (src/src/App.jsx; src/unnamed/part_000 *)
(* is a style variant whose lines 1-90 are identical): the React state of  *)
(* the component, the location effect, the resolver fetchMasjids with its  *)
(* local fallback, and the haversine distance calculateDistance.           *)
(*                                                                         *)
(* Numbers.  Coordinates are integers in units of 1e-4 degree, so that the *)
(* literals of the source (21.4225, 39.8262, 21.4300, 39.8350) are exact.  *)
(* The double arithmetic of calculateDistance is modelled by fixed-point   *)
(* arithmetic with eight decimal digits (scale S); every operation rounds, *)
(* as a floating-point operation does, and is odd/even in its argument     *)
(* wherever the IEEE operation is.  Distances are whole metres.  A value   *)
(* that is NaN in JavaScript is the distinguished value NaN.               *)
(***************************************************************************)
EXTENDS Integers, Sequences, FiniteSets, TLC

\* ------------------------------------------------------------------ bounds
MaxGeoRequests == 3     \* getCurrentPosition requests explored per session
MaxFetchCalls == 2      \* direct invocations of fetchMasjids (SpecResolver)
MaxInFlight == 1        \* executions of fetchMasjids awaiting the remote query
MaxFormEdits == 2       \* edits of the admin form while it is mounted
MaxSaves == 1           \* insert requests of the admin form awaiting their answer

\* --------------------------------------------------- fixed-point arithmetic
S == 100000000          \* scale of the fixed-point numbers: 1.0 is S
Limb == 10000           \* S = Limb * Limb; products are formed limb by limb
NaN == -999999999       \* the JavaScript value NaN
PI == 314159265         \* Math.PI at scale S

Abs(x) == IF x < 0 THEN -x ELSE x
Sgn(x) == IF x < 0 THEN -1 ELSE 1
Half(x) == Sgn(x) * (Abs(x) \div 2)

\* a * b of two non-negative fixed-point numbers, rounded to nearest
MulMag(a, b) ==
  LET ah == a \div Limb
      al == a % Limb
      bh == b \div Limb
      bl == b % Limb
  IN ah * bh + ((ah * bl + al * bh + ((al * bl + Limb \div 2) \div Limb) + Limb \div 2) \div Limb)

Mul(a, b) == Sgn(a) * Sgn(b) * MulMag(Abs(a), Abs(b))

\* q * b <= a * S, compared exactly
LeqProd(q, b, a) ==
  LET qh == q \div Limb
      ql == q % Limb
      bh == b \div Limb
      bl == b % Limb
      mid == qh * bl + ql * bh + (ql * bl) \div Limb
      hi == qh * bh + mid \div Limb
  IN hi < a \/ (hi = a /\ mid % Limb = 0 /\ (ql * bl) % Limb = 0)

RECURSIVE Bisect(_, _, _, _)
\* the largest q in lo..hi with q * b <= a * S
Bisect(a, b, lo, hi) ==
  IF lo >= hi THEN lo
  ELSE LET mid == lo + (hi - lo + 1) \div 2
       IN IF LeqProd(mid, b, a) THEN Bisect(a, b, mid, hi) ELSE Bisect(a, b, lo, mid - 1)

\* a / b for 0 <= a <= b
Div(a, b) == Bisect(a, b, 0, S)

RECURSIVE SqrtBisect(_, _, _)
\* the largest r in lo..hi with r * r <= a * S
SqrtBisect(a, lo, hi) ==
  IF lo >= hi THEN lo
  ELSE LET mid == lo + (hi - lo + 1) \div 2
       IN IF LeqProd(mid, mid, a) THEN SqrtBisect(a, mid, hi) ELSE SqrtBisect(a, lo, mid - 1)

\* Math.sqrt: NaN for a negative (or NaN) argument
sqrt(a) == IF a = NaN \/ a < 0 THEN NaN ELSE SqrtBisect(a, 0, 2 * S)

\* x * Math.PI / 180 for x in units of 1e-4 degree: x * 174.532925 at scale S
toRadMag(d) == d * 174 + (d * 53) \div 100 + (d * 29) \div 10000 + (d * 25) \div 1000000
toRad(d) == Sgn(d) * toRadMag(Abs(d))

RECURSIVE SinSeries(_, _, _, _)
\* y - y^3/3! + y^5/5! - ... : term is the last term added, k the next factor
SinSeries(term, y2, k, acc) ==
  IF term = 0 \/ k > 15 THEN acc
  ELSE LET nxt == 0 - Mul(term, y2)
           t2 == Sgn(nxt) * ((Abs(nxt) + (k * (k + 1)) \div 2) \div (k * (k + 1)))
       IN SinSeries(t2, y2, k + 2, acc + t2)

SinQ(y) == SinSeries(y, Mul(y, y), 2, y)
sinMag(x) == IF x <= PI \div 2 THEN SinQ(x) ELSE SinQ(PI - x)
\* Math.sin for |x| <= pi, Math.cos for |x| <= pi/2
sin(x) == Sgn(x) * sinMag(Abs(x))
cos(x) == SinQ(PI \div 2 - Abs(x))

RECURSIVE AtanSeries(_, _, _, _)
\* t - t^3/3 + t^5/5 - ... : pw is the last signed power, k the next divisor
AtanSeries(pw, t2, k, acc) ==
  IF pw = 0 \/ k > 41 THEN acc
  ELSE LET np == 0 - Mul(pw, t2)
           tm == Sgn(np) * ((Abs(np) + k \div 2) \div k)
       IN AtanSeries(np, t2, k + 2, acc + tm)

\* atan(t) = 2 atan(t / (1 + sqrt(1 + t^2))), applied twice, then the series
Halve(t) == Div(t, S + sqrt(S + Mul(t, t)))
AtanU(t) == LET u == Halve(Halve(t)) IN 4 * AtanSeries(u, Mul(u, u), 3, u)

\* Math.atan2(y, x) for y >= 0, x >= 0; NaN if either argument is NaN
atan2(y, x) ==
  IF y = NaN \/ x = NaN THEN NaN
  ELSE IF y = 0 THEN 0
  ELSE IF x = 0 THEN PI \div 2
  ELSE IF y <= x THEN AtanU(Div(y, x))
  ELSE PI \div 2 - AtanU(Div(x, y))

\* ------------------------------------------------------ calculateDistance
R == 6371000            \* Earth's radius in meters

\* the haversine term, the variable a of calculateDistance, at scale S
haversine(lat1, lng1, lat2, lng2) ==
  LET dLat == toRad(lat2 - lat1)
      dLng == toRad(lng2 - lng1)
      sLat == sin(Half(dLat))
      sLng == sin(Half(dLng))
  IN Mul(sLat, sLat) + Mul(Mul(Mul(cos(toRad(lat1)), cos(toRad(lat2))), sLng), sLng)

calculateDistance(lat1, lng1, lat2, lng2) ==
  LET a == haversine(lat1, lng1, lat2, lng2)
      y == sqrt(a)
      x == sqrt(S - a)
      t == atan2(y, x)
  IN IF t = NaN THEN NaN ELSE Mul(R, 2 * t)

\* ------------------------------------------------------------- static data
Coord(la, ln) == [lat |-> la, lng |-> ln]

\* useState({ lat: 21.4225, lng: 39.8262 })
DefaultLoc == Coord(214225, 398262)

MOCK_MASJIDS ==
  << [id |-> "demo-1", name |-> "Grand Masjid Al-Noor", lat |-> 214225, lng |-> 398262,
      jamaat_times |-> [fajr |-> "05:15 AM", dhuhr |-> "12:30 PM", asr |-> "03:45 PM",
                        maghrib |-> "05:50 PM", isha |-> "07:15 PM"],
      dist_meters |-> 500],
     [id |-> "demo-2", name |-> "Community Islamic Center", lat |-> 214300, lng |-> 398350,
      jamaat_times |-> [fajr |-> "05:30 AM", dhuhr |-> "01:00 PM", asr |-> "04:00 PM",
                        maghrib |-> "06:05 PM", isha |-> "07:30 PM"],
      dist_meters |-> 500] >>

\* the JavaScript null (selectedMasjid before a card is clicked)
NULL == [null |-> TRUE]
\* the JavaScript undefined (an argument that was not passed)
Undefined == [undefined |-> TRUE]

\* AdminPortal: useState({ name: '', lat: 21.4225, lng: 39.8262, timings: {...} })
InitialForm ==
  [name |-> "", lat |-> 214225, lng |-> 398262,
   timings |-> [fajr |-> "", dhuhr |-> "", asr |-> "", maghrib |-> "", isha |-> ""]]
Prayers == {"fajr", "dhuhr", "asr", "maghrib", "isha"}

\* -------------------------------------------------- inputs of the environment
\* coordinates the platform location capability may deliver
Positions == {DefaultLoc, Coord(0, 0)}

\* what the user may type into and click in the admin form
FormNames == {"Masjid C"}
FormTimes == {"05:45 AM"}
FormPositions == {Coord(515074, -1278)}

\* records the remote nearby_masjids query may return
RemoteA ==
  [id |-> "db-1", name |-> "Masjid A", lat |-> 515100, lng |-> -1300,
   jamaat_times |-> [fajr |-> "05:00 AM", dhuhr |-> "01:15 PM", asr |-> "04:30 PM",
                     maghrib |-> "07:00 PM", isha |-> "08:30 PM"],
   dist_meters |-> 320]
RemoteB == [RemoteA EXCEPT !.id = "db-2", !.name = "Masjid B", !.lat = 515200, !.dist_meters = 1410]

\* what awaiting supabase.rpc(...) can produce.  kind:
\*   "data"      resolves to { data, error: null }
\*   "error"     resolves to { data: null, error: err }, err truthy
\*   "throw"     rpc throws, or its promise rejects, with the value err
\*   "malformed" resolves to something else: err "Error" is a value that cannot
\*               be destructured (undefined), which raises a TypeError; err
\*               "none" is an object with neither a data nor an error field
\* err: "Error" has a message field, "NoMessage" is a non-null value without
\* one (a string, {}), "Nullish" is null or undefined.
Outcome(k, e, d) == [kind |-> k, err |-> e, data |-> d]
RemoteOutcomes ==
  {Outcome("data", "none", d) : d \in {<<>>, <<RemoteA>>, <<RemoteB, RemoteA>>}}
    \cup {Outcome("error", e, <<>>) : e \in {"Error", "NoMessage"}}
    \cup {Outcome("throw", e, <<>>) : e \in {"Error", "NoMessage", "Nullish"}}
    \cup {Outcome("malformed", e, <<>>) : e \in {"Error", "none"}}

\* supabase is null: evaluating supabase.rpc throws a TypeError inside the try
Unconfigured == Outcome("unconfigured", "Error", <<>>)

\* ------------------------------------------------------------------- state
VARIABLES
  supabase,        \* "client" if both keys are set, else "null"
  view,            \* useState('discovery')
  userLoc,         \* useState({ lat, lng })
  masjids,         \* useState(MOCK_MASJIDS)
  selectedMasjid,  \* useState(null)
  dbError,         \* useState(!supabase)
  effectPending,   \* a render was committed and its effect has not run yet
  geoPending,      \* getCurrentPosition requests not yet answered
  geoRequests,     \* number of getCurrentPosition requests made so far
  lastGeo,         \* answer to the latest request: "none", "success", "error"
  lastPos,         \* coordinate of the latest success callback, or NULL
  fetchCalls,      \* number of invocations of fetchMasjids so far
  lastCall,        \* (lat, lng) of the latest invocation, or NULL
  inFlight,        \* executions of fetchMasjids suspended at the await
  done,            \* the latest completed execution of fetchMasjids, or NULL
  mockData,        \* the field values of the objects of the array MOCK_MASJIDS
  selAlias,        \* i if selectedMasjid is the object MOCK_MASJIDS[i], else 0
  listShared,      \* the entries of masjids are the objects of MOCK_MASJIDS
  form,            \* AdminPortal's useState({ name, lat, lng, timings }); NULL if unmounted
  formEdits,       \* number of setForm calls since AdminPortal was mounted
  savePending,     \* insert requests of saveToDb not yet answered
  inserted,        \* the argument of the latest insert call, NULL if there was none
  pair,            \* the two coordinates calculateDistance is applied to, or NULL
  calc             \* what calculateDistance computed for pair, NULL before the call

vars == <<supabase, view, userLoc, masjids, selectedMasjid, dbError, effectPending,
          geoPending, geoRequests, lastGeo, lastPos, fetchCalls, lastCall, inFlight, done,
          mockData, selAlias, listShared, form, formEdits, savePending, inserted,
          pair, calc>>

heapVars == <<mockData, selAlias, listShared>>
saveVars == <<savePending, inserted>>
adminVars == <<form, formEdits, savePending, inserted>>
distVars == <<pair, calc>>

\* the state of MasjidApp after its first render
InitApp ==
  /\ supabase \in {"null", "client"}
  /\ view = "discovery"
  /\ userLoc = DefaultLoc
  /\ masjids = MOCK_MASJIDS
  /\ selectedMasjid = NULL
  /\ dbError = (supabase = "null")
  /\ effectPending = TRUE
  /\ geoPending = 0
  /\ geoRequests = 0
  /\ lastGeo = "none"
  /\ lastPos = NULL
  /\ fetchCalls = 0
  /\ lastCall = NULL
  /\ inFlight = <<>>
  /\ done = NULL
  /\ mockData = MOCK_MASJIDS
  /\ selAlias = 0
  /\ listShared = TRUE
  /\ form = NULL
  /\ formEdits = 0
  /\ savePending = 0
  /\ inserted = NULL

Init ==
  /\ InitApp
  /\ pair = NULL
  /\ calc = NULL

\* ------------------------------------------------------------ fetchMasjids
RECURSIVE WithDistance(_, _, _)
\* MOCK_MASJIDS.map(masjid => ({ ...masjid, dist_meters: calculateDistance(...) }))
WithDistance(list, lat, lng) ==
  IF list = <<>> THEN <<>>
  ELSE << [Head(list) EXCEPT !.dist_meters =
             calculateDistance(lat, lng, Head(list).lat, Head(list).lng)] >>
       \o WithDistance(Tail(list), lat, lng)

\* The local tier for every coordinate fetchMasjids can be called with.  A
\* constant, so that the map over MOCK_MASJIDS is evaluated once per
\* coordinate and not once per step.
LocalTier == [p \in Positions |-> WithDistance(MOCK_MASJIDS, p.lat, p.lng)]

\* the value that reaches the catch block, "none" if the try block completes
Caught(remote) ==
  CASE remote.kind = "unconfigured" -> "Error"
    [] remote.kind = "malformed" -> remote.err
    [] remote.kind = "throw" -> remote.err
    [] remote.kind = "error" -> remote.err
    [] OTHER -> "none"

\* fetchMasjids with the fallback moved out of the catch block (a finally):
\* the local tier also replaces a list the remote query returned
fetchMasjids_fallbackAlways(lat, lng, remote, cur) ==
  IF Caught(remote) = "Nullish"
  THEN [masjids |-> cur.masjids, dbError |-> cur.dbError,
        settled |-> "rejected", fallback |-> FALSE, render |-> FALSE,
           mock |-> cur.mock, shared |-> cur.shared]
  ELSE [masjids |-> LocalTier[Coord(lat, lng)], dbError |-> TRUE,
        settled |-> "resolved", fallback |-> TRUE, render |-> TRUE,
           mock |-> cur.mock, shared |-> FALSE]

\* fetchMasjids with setDbError(false) added next to setMasjids(data)
fetchMasjids_clearsFlag(lat, lng, remote, cur) ==
  LET err == Caught(remote)
  IN IF err = "none"
     THEN [masjids |-> IF Len(remote.data) > 0 THEN remote.data ELSE cur.masjids,
           dbError |-> IF Len(remote.data) > 0 THEN FALSE ELSE cur.dbError,
           settled |-> "resolved", fallback |-> FALSE, render |-> Len(remote.data) > 0,
           mock |-> cur.mock, shared |-> IF Len(remote.data) > 0 THEN FALSE ELSE cur.shared]
     ELSE IF err = "Nullish"
     THEN [masjids |-> cur.masjids, dbError |-> cur.dbError,
           settled |-> "rejected", fallback |-> FALSE, render |-> FALSE,
           mock |-> cur.mock, shared |-> cur.shared]
     ELSE [masjids |-> LocalTier[Coord(lat, lng)], dbError |-> TRUE,
           settled |-> "resolved", fallback |-> TRUE, render |-> TRUE,
           mock |-> cur.mock, shared |-> FALSE]

\* fetchMasjids with line 69 reduced to `if (data) setMasjids(data)`
fetchMasjids_storesEmpty(lat, lng, remote, cur) ==
  LET err == Caught(remote)
  IN IF err = "none"
     THEN [masjids |-> IF remote.kind = "data" THEN remote.data ELSE cur.masjids,
           dbError |-> cur.dbError, settled |-> "resolved", fallback |-> FALSE,
           render |-> remote.kind = "data", mock |-> cur.mock,
           shared |-> IF remote.kind = "data" THEN FALSE ELSE cur.shared]
     ELSE IF err = "Nullish"
     THEN [masjids |-> cur.masjids, dbError |-> cur.dbError,
           settled |-> "rejected", fallback |-> FALSE, render |-> FALSE,
           mock |-> cur.mock, shared |-> cur.shared]
     ELSE [masjids |-> LocalTier[Coord(lat, lng)], dbError |-> TRUE,
           settled |-> "resolved", fallback |-> TRUE, render |-> TRUE,
           mock |-> cur.mock, shared |-> FALSE]

\* fetchMasjids with the map callback writing masjid.dist_meters and returning
\* masjid itself instead of a spread copy
fetchMasjids_inPlace(lat, lng, remote, cur) ==
  LET err == Caught(remote)
  IN IF err = "none"
     THEN [masjids |-> IF Len(remote.data) > 0 THEN remote.data ELSE cur.masjids,
           dbError |-> cur.dbError, settled |-> "resolved", fallback |-> FALSE,
           render |-> Len(remote.data) > 0, mock |-> cur.mock,
           shared |-> IF Len(remote.data) > 0 THEN FALSE ELSE cur.shared]
     ELSE IF err = "Nullish"
     THEN [masjids |-> cur.masjids, dbError |-> cur.dbError,
           settled |-> "rejected", fallback |-> FALSE, render |-> FALSE,
           mock |-> cur.mock, shared |-> cur.shared]
     ELSE [masjids |-> LocalTier[Coord(lat, lng)], dbError |-> TRUE,
           settled |-> "resolved", fallback |-> TRUE, render |-> TRUE,
           mock |-> LocalTier[Coord(lat, lng)], shared |-> TRUE]

\* fetchMasjids with setMasjids([...masjids, ...data]) at line 69
fetchMasjids_appends(lat, lng, remote, cur) ==
  LET err == Caught(remote)
  IN IF err = "none"
     THEN [masjids |-> cur.masjids \o remote.data,
           dbError |-> cur.dbError, settled |-> "resolved", fallback |-> FALSE,
           render |-> Len(remote.data) > 0, mock |-> cur.mock,
           shared |-> IF Len(remote.data) > 0 THEN FALSE ELSE cur.shared]
     ELSE IF err = "Nullish"
     THEN [masjids |-> cur.masjids, dbError |-> cur.dbError,
           settled |-> "rejected", fallback |-> FALSE, render |-> FALSE,
           mock |-> cur.mock, shared |-> cur.shared]
     ELSE [masjids |-> LocalTier[Coord(lat, lng)], dbError |-> TRUE,
           settled |-> "resolved", fallback |-> TRUE, render |-> TRUE,
           mock |-> cur.mock, shared |-> FALSE]

\* The body of fetchMasjids from the result of the remote query on: cur is
\* the state it runs in (masjids, dbError, and the objects of MOCK_MASJIDS
\* with whether masjids shares them).  Yields the state it leaves, how
\* its promise settles and whether the fallback (the map over MOCK_MASJIDS)
\* ran; render tells whether a state setter was called (a setMasjids with a
\* new array always commits a render).  data and the result of map with a
\* spread are new objects: mock is left alone and shared ends.  A Nullish value in the catch block makes err.message throw, which
\* rejects the promise before setDbError is reached.
fetchMasjids(lat, lng, remote, cur) ==
  LET err == Caught(remote)
  IN IF err = "none"
     THEN [masjids |-> IF Len(remote.data) > 0 THEN remote.data ELSE cur.masjids,
           dbError |-> cur.dbError, settled |-> "resolved", fallback |-> FALSE,
           render |-> Len(remote.data) > 0, mock |-> cur.mock,
           shared |-> IF Len(remote.data) > 0 THEN FALSE ELSE cur.shared]
     ELSE IF err = "Nullish"
     THEN [masjids |-> cur.masjids, dbError |-> cur.dbError,
           settled |-> "rejected", fallback |-> FALSE, render |-> FALSE,
           mock |-> cur.mock, shared |-> cur.shared]
     ELSE [masjids |-> LocalTier[Coord(lat, lng)], dbError |-> TRUE,
           settled |-> "resolved", fallback |-> TRUE, render |-> TRUE,
           mock |-> cur.mock, shared |-> FALSE]

Cur == [masjids |-> masjids, dbError |-> dbError, mock |-> mockData, shared |-> listShared]

\* selectedMasjid read through the reference it holds
Deref(mock) == IF selAlias > 0 THEN mock[selAlias] ELSE selectedMasjid

\* the state a completed execution of fetchMasjids leaves
Apply(res) ==
  /\ masjids' = res.masjids
  /\ dbError' = res.dbError
  /\ mockData' = res.mock
  /\ listShared' = res.shared
  /\ selectedMasjid' = Deref(res.mock)

\* the record kept of a completed execution; again tells whether the execution
\* completed before it had the same coordinate and the same remote outcome
Done(lat, lng, remote, res) ==
  [lat |-> lat, lng |-> lng, remote |-> remote, settled |-> res.settled, fallback |-> res.fallback,
   again |-> (done # NULL /\ done.lat = lat /\ done.lng = lng /\ done.remote = remote)]

\* ---------------------------------------------------------------- actions
\* useEffect(() => { navigator.geolocation.getCurrentPosition(ok, err) },)
\* has no dependency array: it runs after every committed render.  React
\* flushes the effect of a committed render before it handles the next event,
\* so every other action waits for it.
RunEffect ==
  /\ UNCHANGED distVars
  /\ effectPending
  /\ geoRequests < MaxGeoRequests
  /\ effectPending' = FALSE
  /\ geoPending' = geoPending + 1
  /\ geoRequests' = geoRequests + 1
  /\ UNCHANGED <<supabase, view, userLoc, masjids, selectedMasjid, dbError,
                 lastGeo, lastPos, fetchCalls, lastCall, inFlight, done>>
  /\ UNCHANGED heapVars
  /\ UNCHANGED adminVars

\* the success callback passing the state userLoc of the render it was created
\* in (the value before setUserLoc takes effect) instead of pos.coords
LocationSuccess_staleLoc(pos) ==
  /\ UNCHANGED distVars
  /\ ~effectPending
  /\ geoPending > 0
  /\ geoPending' = geoPending - 1
  /\ lastGeo' = "success"
  /\ lastPos' = pos
  /\ userLoc' = pos
  /\ effectPending' = TRUE
  /\ IF supabase = "null"
     THEN LET res == fetchMasjids(userLoc.lat, userLoc.lng, Unconfigured, Cur)
          IN /\ Apply(res)
             /\ fetchCalls' = fetchCalls + 1
             /\ lastCall' = Coord(userLoc.lat, userLoc.lng)
             /\ done' = Done(userLoc.lat, userLoc.lng, Unconfigured, res)
     ELSE UNCHANGED <<masjids, dbError, selectedMasjid, mockData, listShared,
                      fetchCalls, lastCall, done>>
  /\ UNCHANGED <<supabase, view, selAlias, geoRequests, inFlight>>
  /\ UNCHANGED adminVars

\* the success callback: setUserLoc, then fetchMasjids only if !supabase.
\* With supabase null the call throws before the await, so fetchMasjids runs
\* to completion inside the callback.
LocationSuccess(pos) ==
  /\ UNCHANGED distVars
  /\ ~effectPending
  /\ geoPending > 0
  /\ geoPending' = geoPending - 1
  /\ lastGeo' = "success"
  /\ lastPos' = pos
  /\ userLoc' = pos
  /\ effectPending' = TRUE
  /\ IF supabase = "null"
     THEN LET res == fetchMasjids(pos.lat, pos.lng, Unconfigured, Cur)
          IN /\ Apply(res)
             /\ fetchCalls' = fetchCalls + 1
             /\ lastCall' = Coord(pos.lat, pos.lng)
             /\ done' = Done(pos.lat, pos.lng, Unconfigured, res)
     ELSE UNCHANGED <<masjids, dbError, selectedMasjid, mockData, listShared,
                      fetchCalls, lastCall, done>>
  /\ UNCHANGED <<supabase, view, selAlias, geoRequests, inFlight>>
  /\ UNCHANGED adminVars

\* the error callback: console.log("Location access denied, using default.")
LocationError ==
  /\ UNCHANGED distVars
  /\ ~effectPending
  /\ geoPending > 0
  /\ geoPending' = geoPending - 1
  /\ lastGeo' = "error"
  /\ UNCHANGED <<supabase, view, userLoc, masjids, selectedMasjid, dbError, effectPending,
                 geoRequests, lastPos, fetchCalls, lastCall, inFlight, done>>
  /\ UNCHANGED heapVars
  /\ UNCHANGED adminVars

\* setView(v): a render is committed only if the state changes.  AdminPortal
\* is rendered only while view === 'admin' (line 278): entering the view mounts
\* it with its initial form, leaving the view discards its state.
SetView(v) ==
  /\ view' = v
  /\ effectPending' = (v # view)
  /\ form' = IF v # "admin" THEN NULL ELSE IF view = "admin" THEN form ELSE InitialForm
  /\ formEdits' = IF v = "admin" /\ view = "admin" THEN formEdits ELSE 0

\* <h1 onClick={() => setView('discovery')}>
HeaderClick ==
  /\ UNCHANGED distVars
  /\ ~effectPending
  /\ SetView("discovery")
  /\ UNCHANGED <<supabase, userLoc, masjids, selectedMasjid, dbError, geoPending, geoRequests,
                 lastGeo, lastPos, fetchCalls, lastCall, inFlight, done>>
  /\ UNCHANGED heapVars
  /\ UNCHANGED saveVars

\* <button onClick={() => setView(view === 'admin' ? 'discovery' : 'admin')}>
AdminToggle ==
  /\ UNCHANGED distVars
  /\ ~effectPending
  /\ SetView(IF view = "admin" THEN "discovery" ELSE "admin")
  /\ UNCHANGED <<supabase, userLoc, masjids, selectedMasjid, dbError, geoPending, geoRequests,
                 lastGeo, lastPos, fetchCalls, lastCall, inFlight, done>>
  /\ UNCHANGED heapVars
  /\ UNCHANGED saveVars

\* the card's onClick without setSelectedMasjid(m): only setView('profile')
CardClick_noSelect(i) ==
  /\ UNCHANGED distVars
  /\ ~effectPending
  /\ view = "discovery"
  /\ i \in 1..Len(masjids)
  /\ UNCHANGED <<selectedMasjid, selAlias>>
  /\ UNCHANGED <<mockData, listShared>>
  /\ view' = "profile"
  /\ effectPending' = TRUE
  /\ UNCHANGED <<supabase, userLoc, masjids, dbError, geoPending, geoRequests,
                 lastGeo, lastPos, fetchCalls, lastCall, inFlight, done>>
  /\ UNCHANGED adminVars

\* card i of the discovery grid: setSelectedMasjid(m); setView('profile')
CardClick(i) ==
  /\ UNCHANGED distVars
  /\ ~effectPending
  /\ view = "discovery"
  /\ i \in 1..Len(masjids)
  /\ selectedMasjid' = masjids[i]
  /\ selAlias' = IF listShared THEN i ELSE 0
  /\ UNCHANGED <<mockData, listShared>>
  /\ view' = "profile"
  /\ effectPending' = TRUE
  /\ UNCHANGED <<supabase, userLoc, masjids, dbError, geoPending, geoRequests,
                 lastGeo, lastPos, fetchCalls, lastCall, inFlight, done>>
  /\ UNCHANGED adminVars

\* the back button of the profile view, rendered if view === 'profile' && selectedMasjid
BackClick ==
  /\ UNCHANGED distVars
  /\ ~effectPending
  /\ view = "profile"
  /\ selectedMasjid # NULL
  /\ SetView("discovery")
  /\ UNCHANGED <<supabase, userLoc, masjids, selectedMasjid, dbError, geoPending, geoRequests,
                 lastGeo, lastPos, fetchCalls, lastCall, inFlight, done>>
  /\ UNCHANGED heapVars
  /\ UNCHANGED saveVars

appVars == <<supabase, userLoc, masjids, selectedMasjid, dbError, geoPending, geoRequests,
             lastGeo, lastPos, fetchCalls, lastCall, inFlight, done>>

\* setForm(next) in an onChange handler or in the map's onSelect: AdminPortal
\* renders again, MasjidApp does not
SetForm(next) ==
  /\ UNCHANGED distVars
  /\ ~effectPending
  /\ view = "admin"
  /\ formEdits < MaxFormEdits
  /\ form' = next
  /\ formEdits' = formEdits + 1
  /\ UNCHANGED <<view, effectPending>>
  /\ UNCHANGED appVars
  /\ UNCHANGED heapVars
  /\ UNCHANGED saveVars

\* onChange={e => setForm({...form, name: e.target.value})}
EditName(n) == SetForm([form EXCEPT !.name = n])

\* <LocationSelector onSelect={(lat, lng) => setForm({...form, lat, lng})} />
MapClick(pos) == SetForm([form EXCEPT !.lat = pos.lat, !.lng = pos.lng])

\* onChange={e => setForm({...form, timings: {...form.timings, [p]: e.target.value}})}
EditTiming(p, t) == SetForm([form EXCEPT !.timings[p] = t])

\* saveToDb up to its await: without a client it alerts and returns; with one
\* it calls supabase.from('masjids').insert() - with no argument
SaveClick ==
  /\ UNCHANGED distVars
  /\ ~effectPending
  /\ view = "admin"
  /\ IF supabase = "null"
     THEN UNCHANGED saveVars
     ELSE /\ savePending < MaxSaves
          /\ savePending' = savePending + 1
          /\ inserted' = Undefined
  /\ UNCHANGED <<view, effectPending, form, formEdits>>
  /\ UNCHANGED appVars
  /\ UNCHANGED heapVars

\* the insert request is answered: alert(error.message), or alert("Saved!")
\* and onSaved(), which is setView('discovery')
SaveSettle(ok) ==
  /\ UNCHANGED distVars
  /\ ~effectPending
  /\ savePending > 0
  /\ savePending' = savePending - 1
  /\ IF ok THEN SetView("discovery") ELSE UNCHANGED <<view, effectPending, form, formEdits>>
  /\ UNCHANGED inserted
  /\ UNCHANGED appVars
  /\ UNCHANGED heapVars

\* the operations of MasjidApp itself
NextApp ==
  \/ RunEffect
  \/ \E pos \in Positions : LocationSuccess(pos)
  \/ LocationError
  \/ HeaderClick
  \/ AdminToggle
  \/ \E i \in 1..Len(masjids) : CardClick(i)
  \/ BackClick

\* the operations of the AdminPortal it renders in the admin view
NextAdmin ==
  \/ \E n \in FormNames : EditName(n)
  \/ \E pos \in FormPositions : MapClick(pos)
  \/ \E p \in Prayers, t \in FormTimes : EditTiming(p, t)
  \/ SaveClick
  \/ \E ok \in BOOLEAN : SaveSettle(ok)

Next == NextApp \/ NextAdmin

Spec == Init /\ [][Next]_vars

\* ------------------------------------------ the resolver, driven directly
\* fetchMasjids(pos.lat, pos.lng) invoked with any coordinate in any
\* configuration, as a test of the resolver does, between the operations of
\* MasjidApp.  With a client the execution suspends at the await until the
\* remote query settles.  (The admin form shares no state with the resolver
\* and is left out here.)
Resolve(pos) ==
  /\ UNCHANGED distVars
  /\ ~effectPending
  /\ fetchCalls < MaxFetchCalls
  /\ Len(inFlight) < MaxInFlight
  /\ fetchCalls' = fetchCalls + 1
  /\ lastCall' = Coord(pos.lat, pos.lng)
  /\ IF supabase = "null"
     THEN LET res == fetchMasjids(pos.lat, pos.lng, Unconfigured, Cur)
          IN /\ Apply(res)
             /\ effectPending' = res.render
             /\ done' = Done(pos.lat, pos.lng, Unconfigured, res)
             /\ UNCHANGED inFlight
     ELSE /\ inFlight' = Append(inFlight, Coord(pos.lat, pos.lng))
          /\ UNCHANGED <<masjids, dbError, selectedMasjid, mockData, listShared,
                         effectPending, done>>
  /\ UNCHANGED <<supabase, view, userLoc, selAlias, geoPending, geoRequests,
                 lastGeo, lastPos>>
  /\ UNCHANGED adminVars

Remove(seq, i) == SubSeq(seq, 1, i - 1) \o SubSeq(seq, i + 1, Len(seq))

\* the remote query of execution i settles and the rest of fetchMasjids runs
RpcSettle(i, remote) ==
  /\ UNCHANGED distVars
  /\ ~effectPending
  /\ i \in 1..Len(inFlight)
  /\ LET call == inFlight[i]
         res == fetchMasjids(call.lat, call.lng, remote, Cur)
     IN /\ Apply(res)
        /\ effectPending' = res.render
        /\ done' = Done(call.lat, call.lng, remote, res)
  /\ inFlight' = Remove(inFlight, i)
  /\ UNCHANGED <<supabase, view, userLoc, selAlias, geoPending, geoRequests,
                 lastGeo, lastPos, fetchCalls, lastCall>>
  /\ UNCHANGED adminVars

NextResolver ==
  \/ NextApp
  \/ \E pos \in Positions : Resolve(pos)
  \/ \E i \in 1..MaxInFlight, remote \in RemoteOutcomes : RpcSettle(i, remote)

SpecResolver == Init /\ [][NextResolver]_vars

\* --------------------------------------------- calculateDistance on its own
\* valid coordinates calculateDistance is applied to: the two demo places, the
\* origin, London, the poles, points of the antimeridian, the antipode of the
\* default location, and a pair of points 0.015 degree off the equator that
\* face each other across the globe
DistCoords ==
  {DefaultLoc, Coord(214300, 398350), Coord(0, 0), Coord(515074, -1278),
   Coord(900000, 0), Coord(-900000, 0), Coord(150, 0), Coord(-150, 1800000),
   Coord(0, 1800000), Coord(0, -1800000), Coord(-214225, -1401738)}

InitDistance ==
  /\ InitApp
  /\ pair \in DistCoords \X DistCoords
  /\ calc = NULL

\* calculateDistance applied to pair in both orders: ab and ba are the values
\* returned, h is the variable a as it is passed to the two square roots
Measure ==
  /\ pair # NULL
  /\ calc = NULL
  /\ LET a == pair[1]
         b == pair[2]
     IN calc' = [ab |-> calculateDistance(a.lat, a.lng, b.lat, b.lng),
                 ba |-> calculateDistance(b.lat, b.lng, a.lat, a.lng),
                 h |-> haversine(a.lat, a.lng, b.lat, b.lng)]
  /\ UNCHANGED pair
  /\ UNCHANGED <<view, effectPending>>
  /\ UNCHANGED appVars
  /\ UNCHANGED heapVars
  /\ UNCHANGED adminVars

NextDistance == Measure

SpecDistance == InitDistance /\ [][NextDistance]_vars

\* ================================================================ properties
\* the remote query of the latest completed execution
RemoteFailed == done # NULL /\ done.remote.kind \in {"unconfigured", "error", "throw"}
RemoteEmpty == done # NULL /\ done.remote.kind = "data" /\ done.remote.data = <<>>
RemoteListed == done # NULL /\ done.remote.kind = "data" /\ Len(done.remote.data) > 0
\* a step in which an execution suspended at the await completes
SettleStep == Len(inFlight') < Len(inFlight)

\* C1: after an execution of fetchMasjids(lat, lng) whose remote query threw,
\* returned an error object or had no client, masjids is MOCK_MASJIDS entry by
\* entry with dist_meters = calculateDistance(lat, lng, entry.lat, entry.lng),
\* and dbError is true.
C1_FailureYieldsLocalTier ==
  RemoteFailed => /\ masjids = WithDistance(MOCK_MASJIDS, done.lat, done.lng)
                  /\ dbError

\* C2: after an execution whose remote query succeeded with zero records the
\* local tier has run: masjids is the static dataset with computed distances
\* and dbError is true.
C2_EmptyFallsThrough ==
  RemoteEmpty => /\ done.fallback
                 /\ masjids = WithDistance(MOCK_MASJIDS, done.lat, done.lng)
                 /\ dbError

GeoStep == geoPending' < geoPending
GeoSuccessStep == GeoStep /\ lastGeo' = "success"
GeoErrorStep == GeoStep /\ lastGeo' = "error"

\* C4: every success callback stores its coordinate in userLoc and invokes
\* fetchMasjids with it, whether or not the backend client is configured.
C4_SuccessTriggersFetch ==
  [][GeoSuccessStep => /\ userLoc' = lastPos'
                       /\ fetchCalls' = fetchCalls + 1
                       /\ lastCall' = lastPos']_vars

\* C5: getCurrentPosition is requested at most once in a session.
C5_OneLocationRequest == geoRequests <= 1

\* C6: every execution of fetchMasjids whose remote query failed (no client,
\* a throw or rejection with any value, an error object, a malformed response)
\* resolves its promise and has run the fallback.
C6_NoFailureEscapes ==
  (done # NULL /\ done.remote.kind # "data") => (done.settled = "resolved" /\ done.fallback)

\* C7: fetchMasjids is started at most once in a session and no two
\* executions are in flight together.
C7_ResolverOnce == fetchCalls <= 1 /\ Len(inFlight) <= 1

\* C8: fetchMasjids is invoked only inside a success callback of the location
\* request, never before one has fired, and with the coordinate that callback
\* delivered, which is also the coordinate it stores in userLoc.
C8_FetchUsesLocation ==
  /\ [](fetchCalls > 0 => lastPos # NULL)
  /\ [][fetchCalls' # fetchCalls => /\ GeoSuccessStep
                                    /\ fetchCalls' = fetchCalls + 1
                                    /\ lastCall' = lastPos'
                                    /\ userLoc' = lastPos']_vars

\* a resolution has run with a delivered coordinate that is not the default
C8_Witness ==
  /\ fetchCalls > 0
  /\ lastCall = lastPos
  /\ lastCall # DefaultLoc
  /\ userLoc = lastCall
  /\ done # NULL
  /\ Coord(done.lat, done.lng) = lastCall

\* C9: an error callback leaves userLoc at the default coordinate, leaves
\* masjids, dbError, view and selectedMasjid unchanged and starts no
\* resolution, and after it no further location request is made.
C9_DeniedKeepsDefault ==
  [][/\ GeoErrorStep => /\ userLoc' = DefaultLoc
                        /\ UNCHANGED <<masjids, dbError, view, selectedMasjid, fetchCalls>>
     /\ lastGeo = "error" => geoRequests' = geoRequests]_vars

\* {dbError && view === 'discovery' && (...)}: the demo banner is rendered
Banner == dbError /\ view = "discovery"

\* C10: once dbError is true it is true in every later state, so the banner
\* is rendered whenever the view is discovery.
C10_DegradedSticks ==
  [][dbError => (dbError' /\ (view' = "discovery" => Banner'))]_vars

\* a remote query succeeded after the flag was set: the remote list is
\* displayed and the banner is still rendered
C10_Witness ==
  /\ supabase = "client"
  /\ RemoteListed
  /\ masjids = done.remote.data
  /\ dbError
  /\ Banner

\* C11: in every reachable state masjids has at least one entry.
C11_ListNeverEmpty == Len(masjids) > 0

\* the remote query answered with zero records and a list is still displayed
C11_Witness ==
  /\ RemoteEmpty
  /\ supabase = "client"
  /\ Len(masjids) > 0

\* a step in which an execution of fetchMasjids completes
CompletionStep == SettleStep \/ (fetchCalls' > fetchCalls /\ supabase = "null")

\* C12: the objects of MOCK_MASJIDS keep their field values; a completing
\* resolution leaves the Place held in selectedMasjid as it was; and the list a
\* local-tier resolution displays consists of new objects, not of the objects
\* of MOCK_MASJIDS.
C12_PlacesImmutable ==
  /\ [](mockData = MOCK_MASJIDS)
  /\ []((done # NULL /\ done.fallback) => ~listShared)
  /\ [][CompletionStep => selectedMasjid' = selectedMasjid]_vars

\* the card of the static object i was selected, then a local-tier resolution
\* ran: the selection still shows the placeholder, the new list does not
C12_Witness ==
  /\ selAlias > 0
  /\ done # NULL /\ done.fallback
  /\ selectedMasjid = MOCK_MASJIDS[selAlias]
  /\ masjids[selAlias].dist_meters # selectedMasjid.dist_meters

\* C13: when an execution of fetchMasjids completes right after one with the
\* same coordinate and the same remote outcome, it leaves masjids and dbError
\* as the first one left them.
C13_Idempotent ==
  [][(CompletionStep /\ done'.again) => (masjids' = masjids /\ dbError' = dbError)]_vars

\* the same non-empty remote answer was resolved twice in a row
C13_Witness ==
  /\ RemoteListed
  /\ done.again
  /\ masjids = done.remote.data

\* C14: saving in the admin form with a configured backend passes to the insert
\* on the masjids table a record carrying the form's current name, latitude,
\* longitude and five jamaat timings
C14_InsertCarriesForm ==
  [][savePending' > savePending =>
       /\ inserted' # Undefined
       /\ inserted'.name = form.name
       /\ inserted'.lat = form.lat
       /\ inserted'.lng = form.lng
       /\ inserted'.timings = form.timings]_vars

\* the JavaScript comparison x === y of two numbers: NaN equals nothing
StrictEq(x, y) == x # NaN /\ y # NaN /\ x = y

\* C15: calculateDistance(a, b) equals calculateDistance(b, a) for all valid
\* coordinates a and b, and the result is never negative
C15_SymmetricNonNegative ==
  calc # NULL => (StrictEq(calc.ab, calc.ba) /\ ~(calc.ab # NaN /\ calc.ab < 0))

\* C16: the haversine term is within [0, 1] when the square roots are taken,
\* so for every pair of valid coordinates, antipodal and near-antipodal ones
\* included, the result of calculateDistance is a number and not NaN
C16_NeverNaN ==
  calc # NULL => (0 <= calc.h /\ calc.h <= S /\ calc.ab # NaN)

\* the lists the remote query can return and fetchMasjids stores
RemoteLists == {o.data : o \in {r \in RemoteOutcomes : Len(r.data) > 0}}

\* C17: in every reachable state, the initial one with a configured backend
\* included, if dbError is false then masjids is a list the remote query
\* returned
C17_FlagMatchesData == ~dbError => masjids \in RemoteLists

\* C18: view is one of discovery, profile, admin, and whenever view is profile
\* selectedMasjid is non-null; a step that enters the profile view selects a
\* Place of the displayed list (the card that was clicked)
C18_ProfileHasSelection ==
  /\ [](view \in {"discovery", "profile", "admin"})
  /\ [](view = "profile" => selectedMasjid # NULL)
  /\ [][(view # "profile" /\ view' = "profile") =>
          \E i \in 1..Len(masjids) : selectedMasjid' = masjids[i]]_vars

\* a card is clicked after an admin save came back and returned to discovery
C18_Witness ==
  /\ view = "profile"
  /\ selectedMasjid # NULL
  /\ inserted # NULL
  /\ savePending = 0

====
